---- MODULE Spec2Model ----
(***************************************************************************)
(* State-machine model of the ZKAstro Stylus contracts:                    *)
(*   - ChartRegistry        (src/contracts/ChartRegistry.rs)               *)
(*   - FarcasterPredictions (src/contracts/src/farcaster_predictions.rs)   *)
(* Every public entry point is one action.  A call that returns Err leaves *)
(* the contract storage as it was and only records its result in `last`.   *)
(* The two contracts share no storage: SpecRegistry runs the entry points  *)
(* of ChartRegistry (with the host clock), SpecPredictions those of        *)
(* FarcasterPredictions.  Spec runs either contract: the first call of a   *)
(* behaviour chooses the contract and every later call goes to the same    *)
(* one.  SpecProof applies the two pure proof functions of                 *)
(* src/contracts/src/poseidon.rs to arguments chosen in the initial state. *)
(***************************************************************************)
EXTENDS Integers, Sequences, FiniteSets, TLC

\* ------------------------------------------------------------------ bounds
\* Cap on the length of the event log (every successful register_chart and
\* mark_as_verified appends one event).
MaxEvents == 2
\* Cap on global_predictions.
MaxPredictions == 2
\* Cap on the sum of the senders' total_ratings counters.
MaxRatings == 3

\* ------------------------------------------------------------ value domains
\* Chart identifiers (String).
ChartIds == {"a", "b"}
\* B32 values; ZERO_HASH is B32::ZERO.
ZERO_HASH == 0
Hashes == {0, 1, 2}
\* Address values; ZERO_ADDRESS is Address::ZERO.
ZERO_ADDRESS == 0
Addresses == {0, 1, 2}
\* Birth-data commitments passed to register_user (bytes32).
Commitments == {0, 1}
\* Prediction hashes passed to store_prediction (bytes32).
PredictionHashes == {0, 1, 2}
\* Values of the host clock block::timestamp(); it starts at 0.
Times == {0, 1}
\* msg_sender of the prediction contract (never the zero address).
Senders == {1, 2}
\* Prediction dates (U256 day keys).
Dates == {0, 1}
\* The largest rating rate_prediction accepts.
MAX_RATING == 5
\* Rating arguments tried (u8): the lowest, a middle one, the highest legal
\* one and one above MAX_RATING.
RatingArgs == {0, 2, MAX_RATING, MAX_RATING + 1}

VARIABLES
    \* ChartRegistry storage
    charts,             \* chart_id -> ChartCommitment
    user_charts,        \* Address -> sequence of chart ids
    total_charts,       \* U256
    \* host collaborators
    now,                \* block::timestamp()
    events,             \* the event log (evm::log)
    \* FarcasterPredictions storage
    user_commitments,   \* address -> bytes32
    user_has_data,      \* address -> bool
    predictions,        \* address -> date -> bytes32
    prediction_exists,  \* address -> date -> bool
    ratings,            \* address -> date -> uint8
    total_predictions,  \* address -> uint256
    total_ratings,      \* address -> uint256
    rating_sum,         \* address -> uint256
    total_users,        \* uint256
    global_predictions, \* uint256
    \* the last call and what it returned
    last,
    \* history of the successful calls (observation only, never read by the code)
    chartLog,           \* set of <<chart_id, chart_hash>> accepted by register_chart
    userLog,            \* senders whose register_user returned Ok
    predLog,            \* set of <<sender, date>> whose store_prediction returned Ok
    firstRating         \* sender -> date -> "none", or whether the first accepted
                        \* rating was "zero" or "nonzero"

registryVars == <<charts, user_charts, total_charts>>
predictionVars == <<user_commitments, user_has_data, predictions, prediction_exists,
                    ratings, total_predictions, total_ratings, rating_sum,
                    total_users, global_predictions>>
historyVars == <<chartLog, userLog, predLog, firstRating>>
vars == <<charts, user_charts, total_charts, now, events,
          user_commitments, user_has_data, predictions, prediction_exists,
          ratings, total_predictions, total_ratings, rating_sum,
          total_users, global_predictions, last,
          chartLog, userLog, predLog, firstRating>>

\* The value a storage slot of ChartCommitment reads before any write.
EmptyCommitment ==
    [chart_hash |-> ZERO_HASH, user |-> ZERO_ADDRESS, timestamp |-> 0,
     zk_verified |-> FALSE, chart_id |-> ""]

Call(op, res) == [op |-> op, res |-> res]

RECURSIVE Sum(_, _)
\* Sum of f[x] over x in S.
Sum(f, S) ==
    IF S = {} THEN 0
    ELSE LET x == CHOOSE y \in S : TRUE
         IN f[x] + Sum(f, S \ {x})

Init ==
    /\ charts = [c \in ChartIds |-> EmptyCommitment]
    /\ user_charts = [u \in Addresses |-> <<>>]
    /\ total_charts = 0
    /\ now = 0
    /\ events = <<>>
    /\ user_commitments = [u \in Senders |-> ZERO_HASH]
    /\ user_has_data = [u \in Senders |-> FALSE]
    /\ predictions = [u \in Senders |-> [d \in Dates |-> ZERO_HASH]]
    /\ prediction_exists = [u \in Senders |-> [d \in Dates |-> FALSE]]
    /\ ratings = [u \in Senders |-> [d \in Dates |-> 0]]
    /\ total_predictions = [u \in Senders |-> 0]
    /\ total_ratings = [u \in Senders |-> 0]
    /\ rating_sum = [u \in Senders |-> 0]
    /\ total_users = 0
    /\ global_predictions = 0
    /\ last = Call("none", "Ok")
    /\ chartLog = {}
    /\ userLog = {}
    /\ predLog = {}
    /\ firstRating = [u \in Senders |-> [d \in Dates |-> "none"]]

\* ------------------------------------------------------------ host clock
\* The host advances block::timestamp(); it never goes back.
Tick ==
    /\ now + 1 \in Times
    /\ now' = now + 1
    /\ UNCHANGED <<registryVars, events, predictionVars, last, historyVars>>

\* ---------------------------------------------------------- ChartRegistry
\* init(): resets the counter.
init ==
    /\ total_charts' = 0
    /\ last' = Call("init", "Ok")
    /\ UNCHANGED <<charts, user_charts, now, events, predictionVars, historyVars>>

\* register_chart_check without the zero-owner test.
register_chart_check_NoOwnerTest(chart_id, chart_hash, user) ==
    IF charts[chart_id].timestamp # 0 THEN "ChartAlreadyExists"
    ELSE IF chart_hash = ZERO_HASH THEN "InvalidChartHash"
    ELSE "Ok"

\* The validation of register_chart, in the order of the code.
register_chart_check(chart_id, chart_hash, user) ==
    IF charts[chart_id].timestamp # 0 THEN "ChartAlreadyExists"
    ELSE IF chart_hash = ZERO_HASH THEN "InvalidChartHash"
    ELSE IF user = ZERO_ADDRESS THEN "InvalidUserAddress"
    ELSE "Ok"

\* The commitment register_chart writes.
new_commitment(chart_id, chart_hash, user, zk_verified) ==
    [chart_hash |-> chart_hash, user |-> user, timestamp |-> now,
     zk_verified |-> zk_verified, chart_id |-> chart_id]

ChartCreated(chart_id, chart_hash, user, zk_verified) ==
    [kind |-> "ChartCreated", chart_id |-> chart_id, chart_hash |-> chart_hash,
     user |-> user, timestamp |-> now, zk_verified |-> zk_verified]

register_chart(chart_id, chart_hash, user, zk_verified) ==
    LET res == register_chart_check(chart_id, chart_hash, user) IN
    /\ last' = Call("register_chart", res)
    /\ IF res = "Ok"
       THEN /\ Len(events) < MaxEvents
            /\ charts' = [charts EXCEPT ![chart_id] =
                             new_commitment(chart_id, chart_hash, user, zk_verified)]
            /\ user_charts' = [user_charts EXCEPT ![user] = Append(@, chart_id)]
            /\ total_charts' = total_charts + 1
            /\ events' = Append(events,
                                ChartCreated(chart_id, chart_hash, user, zk_verified))
            /\ chartLog' = chartLog \cup {<<chart_id, chart_hash>>}
       ELSE UNCHANGED <<registryVars, events, chartLog>>
    /\ UNCHANGED <<now, predictionVars, userLog, predLog, firstRating>>

\* verify_chart: the value returned.
verify_chart(chart_id, chart_hash) ==
    charts[chart_id].chart_hash = chart_hash

\* A call of the view verify_chart.
VerifyChart(chart_id, chart_hash) ==
    /\ last' = Call("verify_chart",
                     IF verify_chart(chart_id, chart_hash) THEN "true" ELSE "false")
    /\ UNCHANGED <<registryVars, now, events, predictionVars, historyVars>>

\* The existence test of mark_as_verified.
mark_as_verified_check(chart_id) ==
    IF charts[chart_id].timestamp = 0 THEN "ChartDoesNotExist" ELSE "Ok"

ChartVerified(chart_id, chart_hash) ==
    [kind |-> "ChartVerified", chart_id |-> chart_id, chart_hash |-> chart_hash,
     user |-> ZERO_ADDRESS, timestamp |-> 0, zk_verified |-> FALSE]

mark_as_verified(chart_id) ==
    LET res == mark_as_verified_check(chart_id) IN
    /\ last' = Call("mark_as_verified", res)
    /\ IF res = "Ok"
       THEN /\ Len(events) < MaxEvents
            /\ charts' = [charts EXCEPT ![chart_id].zk_verified = TRUE]
            /\ events' = Append(events,
                                ChartVerified(chart_id, charts[chart_id].chart_hash))
       ELSE UNCHANGED <<charts, events>>
    /\ UNCHANGED <<user_charts, total_charts, now, predictionVars, historyVars>>

NextRegistry ==
    \/ Tick
    \/ init
    \/ \E c \in ChartIds, h \in Hashes, u \in Addresses, v \in BOOLEAN :
           register_chart(c, h, u, v)
    \/ \E c \in ChartIds, h \in Hashes : VerifyChart(c, h)
    \/ \E c \in ChartIds : mark_as_verified(c)

SpecRegistry == Init /\ [][NextRegistry]_vars

\* --------------------------------------------------- FarcasterPredictions
\* register_user_check without the already-registered test.
register_user_check_NoRegisteredTest(user, commitment) ==
    IF commitment = ZERO_HASH THEN "InvalidCommitment"
    ELSE "Ok"

\* The validation of register_user, in the order of the code.
register_user_check(user, commitment) ==
    IF commitment = ZERO_HASH THEN "InvalidCommitment"
    ELSE IF user_has_data[user] THEN "UserAlreadyRegistered"
    ELSE "Ok"

\* register_user that counts the sender before the already-registered test.
register_user_CountBeforeTest(user, commitment) ==
    LET res == register_user_check(user, commitment) IN
    /\ last' = Call("register_user", res)
    /\ IF res # "InvalidCommitment"
       THEN total_users' = total_users + 1
       ELSE UNCHANGED total_users
    /\ IF res = "Ok"
       THEN /\ user_commitments' = [user_commitments EXCEPT ![user] = commitment]
            /\ user_has_data' = [user_has_data EXCEPT ![user] = TRUE]
            /\ userLog' = userLog \cup {user}
       ELSE UNCHANGED <<user_commitments, user_has_data, userLog>>
    /\ UNCHANGED <<registryVars, now, events, predictions, prediction_exists,
                   ratings, total_predictions, total_ratings, rating_sum,
                   global_predictions, chartLog, predLog, firstRating>>

register_user(user, commitment) ==
    LET res == register_user_check(user, commitment) IN
    /\ last' = Call("register_user", res)
    /\ IF res = "Ok"
       THEN /\ user_commitments' = [user_commitments EXCEPT ![user] = commitment]
            /\ user_has_data' = [user_has_data EXCEPT ![user] = TRUE]
            /\ total_users' = total_users + 1
            /\ userLog' = userLog \cup {user}
       ELSE UNCHANGED <<user_commitments, user_has_data, total_users, userLog>>
    /\ UNCHANGED <<registryVars, now, events, predictions, prediction_exists,
                   ratings, total_predictions, total_ratings, rating_sum,
                   global_predictions, chartLog, predLog, firstRating>>

\* store_prediction_check without the registration test.
store_prediction_check_NoRegistrationTest(user, date, prediction_hash) ==
    IF prediction_hash = ZERO_HASH THEN "InvalidPredictionHash"
    ELSE IF prediction_exists[user][date] THEN "PredictionAlreadyExists"
    ELSE "Ok"

\* store_prediction_check without the existence test.
store_prediction_check_NoExistenceTest(user, date, prediction_hash) ==
    IF ~user_has_data[user] THEN "UserNotRegistered"
    ELSE IF prediction_hash = ZERO_HASH THEN "InvalidPredictionHash"
    ELSE "Ok"

\* The validation of store_prediction, in the order of the code.
store_prediction_check(user, date, prediction_hash) ==
    IF ~user_has_data[user] THEN "UserNotRegistered"
    ELSE IF prediction_hash = ZERO_HASH THEN "InvalidPredictionHash"
    ELSE IF prediction_exists[user][date] THEN "PredictionAlreadyExists"
    ELSE "Ok"

store_prediction(user, date, prediction_hash) ==
    LET res == store_prediction_check(user, date, prediction_hash) IN
    /\ last' = Call("store_prediction", res)
    /\ IF res = "Ok"
       THEN /\ global_predictions < MaxPredictions
            /\ predictions' = [predictions EXCEPT ![user][date] = prediction_hash]
            /\ prediction_exists' = [prediction_exists EXCEPT ![user][date] = TRUE]
            /\ total_predictions' = [total_predictions EXCEPT ![user] = @ + 1]
            /\ global_predictions' = global_predictions + 1
            /\ predLog' = predLog \cup {<<user, date>>}
       ELSE UNCHANGED <<predictions, prediction_exists, total_predictions,
                        global_predictions, predLog>>
    /\ UNCHANGED <<registryVars, now, events, user_commitments, user_has_data,
                   ratings, total_ratings, rating_sum, total_users,
                   chartLog, userLog, firstRating>>

\* rate_prediction_check with the bound off by one.
rate_prediction_check_OffByOne(user, date, rating) ==
    IF rating > MAX_RATING + 1 THEN "InvalidRating"
    ELSE IF ~prediction_exists[user][date] THEN "PredictionNotFound"
    ELSE "Ok"

\* The validation of rate_prediction, in the order of the code.
rate_prediction_check(user, date, rating) ==
    IF rating > MAX_RATING THEN "InvalidRating"
    ELSE IF ~prediction_exists[user][date] THEN "PredictionNotFound"
    ELSE "Ok"

\* is_new_rating: the stored rating is 0.
is_new_rating(user, date) ==
    ratings[user][date] = 0

\* total_ratings[user] after an accepted rating.
next_total_ratings(user, date) ==
    IF is_new_rating(user, date) THEN total_ratings[user] + 1
    ELSE total_ratings[user]

\* next_rating_sum that never subtracts the previous rating.
next_rating_sum_NoSubtraction(user, date, rating) ==
    rating_sum[user] + rating

\* rating_sum[user] after an accepted rating.
next_rating_sum(user, date, rating) ==
    IF is_new_rating(user, date) THEN rating_sum[user] + rating
    ELSE rating_sum[user] - ratings[user][date] + rating

rate_prediction(user, date, rating) ==
    LET res == rate_prediction_check(user, date, rating) IN
    /\ last' = Call("rate_prediction", res)
    /\ IF res = "Ok"
       THEN /\ (is_new_rating(user, date) => Sum(total_ratings, Senders) < MaxRatings)
            /\ ratings' = [ratings EXCEPT ![user][date] = rating]
            /\ total_ratings' = [total_ratings EXCEPT ![user] =
                                    next_total_ratings(user, date)]
            /\ rating_sum' = [rating_sum EXCEPT ![user] =
                                 next_rating_sum(user, date, rating)]
            /\ firstRating' = [firstRating EXCEPT ![user][date] =
                                  IF @ # "none" THEN @
                                  ELSE IF rating = 0 THEN "zero" ELSE "nonzero"]
       ELSE UNCHANGED <<ratings, total_ratings, rating_sum, firstRating>>
    /\ UNCHANGED <<registryVars, now, events, user_commitments, user_has_data,
                   predictions, prediction_exists, total_predictions, total_users,
                   global_predictions, chartLog, userLog, predLog>>

\* Views.
is_user_registered(user) == user_has_data[user]
get_prediction(user, date) == predictions[user][date]
has_prediction(user, date) == prediction_exists[user][date]
get_rating(user, date) == ratings[user][date]

\* get_user_stats that rounds the quotient up.
get_user_stats_RoundUp(user) ==
    <<total_predictions[user], total_ratings[user],
      IF total_ratings[user] > 0
      THEN (rating_sum[user] * 10 + total_ratings[user] - 1)
               \div total_ratings[user]
      ELSE 0>>

\* get_user_stats: (total_predictions, total_ratings, average_x10).
get_user_stats(user) ==
    <<total_predictions[user], total_ratings[user],
      IF total_ratings[user] > 0
      THEN (rating_sum[user] * 10) \div total_ratings[user]
      ELSE 0>>

\* get_global_stats: (total_users, total_predictions).
get_global_stats == <<total_users, global_predictions>>

\* A call of the view get_user_stats.
GetUserStats(user) ==
    /\ last' = [op |-> "get_user_stats", res |-> "Ok", user |-> user,
                value |-> get_user_stats(user)]
    /\ UNCHANGED <<registryVars, now, events, predictionVars, historyVars>>

NextPredictions ==
    \/ \E u \in Senders : GetUserStats(u)
    \/ \E u \in Senders, c \in Commitments : register_user(u, c)
    \/ \E u \in Senders, d \in Dates, h \in PredictionHashes : store_prediction(u, d, h)
    \/ \E u \in Senders, d \in Dates, r \in RatingArgs : rate_prediction(u, d, r)

SpecPredictions == Init /\ [][NextPredictions]_vars

\* ------------------------------------------------------- either contract
\* The calls of each contract, as recorded in last.op.
RegistryCalls == {"init", "register_chart", "verify_chart", "mark_as_verified"}
PredictionCalls ==
    {"register_user", "store_prediction", "rate_prediction", "get_user_stats"}

\* The contracts share no storage and FarcasterPredictions never reads the
\* clock, so a behaviour is a behaviour of one contract.
Next ==
    \/ (last.op \notin PredictionCalls /\ NextRegistry)
    \/ (last.op \notin RegistryCalls /\ now = 0 /\ NextPredictions)

Spec == Init /\ [][Next]_vars

\* ------------------------------------------------- calls as functions
\* The storage of ChartRegistry as one value.
RegistryState ==
    [charts |-> charts, user_charts |-> user_charts, total_charts |-> total_charts]

\* register_chart as a function of the storage s and the clock value time:
\* the result returned and the storage it leaves.
register_chart_result(s, time, chart_id, chart_hash, user, zk_verified) ==
    LET res == IF s.charts[chart_id].timestamp # 0 THEN "ChartAlreadyExists"
               ELSE IF chart_hash = ZERO_HASH THEN "InvalidChartHash"
               ELSE IF user = ZERO_ADDRESS THEN "InvalidUserAddress"
               ELSE "Ok"
    IN [res |-> res,
        state |-> IF res = "Ok"
                  THEN [s EXCEPT
                           !.charts[chart_id] =
                               [chart_hash |-> chart_hash, user |-> user,
                                timestamp |-> time, zk_verified |-> zk_verified,
                                chart_id |-> chart_id],
                           !.user_charts[user] = Append(@, chart_id),
                           !.total_charts = @ + 1]
                  ELSE s]

\* The storage of FarcasterPredictions as one value.
PredictionState ==
    [user_commitments |-> user_commitments, user_has_data |-> user_has_data,
     predictions |-> predictions, prediction_exists |-> prediction_exists,
     ratings |-> ratings, total_predictions |-> total_predictions,
     total_ratings |-> total_ratings, rating_sum |-> rating_sum,
     total_users |-> total_users, global_predictions |-> global_predictions]

\* register_user as a function of the storage s.
register_user_result(s, user, commitment) ==
    LET res == IF commitment = ZERO_HASH THEN "InvalidCommitment"
               ELSE IF s.user_has_data[user] THEN "UserAlreadyRegistered"
               ELSE "Ok"
    IN [res |-> res,
        state |-> IF res = "Ok"
                  THEN [s EXCEPT !.user_commitments[user] = commitment,
                                 !.user_has_data[user] = TRUE,
                                 !.total_users = @ + 1]
                  ELSE s]

\* store_prediction_result that sets the global count from the sender's count.
store_prediction_result_CountFromSender(s, user, date, prediction_hash) ==
    LET res == IF ~s.user_has_data[user] THEN "UserNotRegistered"
               ELSE IF prediction_hash = ZERO_HASH THEN "InvalidPredictionHash"
               ELSE IF s.prediction_exists[user][date] THEN "PredictionAlreadyExists"
               ELSE "Ok"
    IN [res |-> res,
        state |-> IF res = "Ok"
                  THEN [s EXCEPT !.predictions[user][date] = prediction_hash,
                                 !.prediction_exists[user][date] = TRUE,
                                 !.total_predictions[user] = @ + 1,
                                 !.global_predictions =
                                     s.total_predictions[user] + 1]
                  ELSE s]

\* store_prediction as a function of the storage s.
store_prediction_result(s, user, date, prediction_hash) ==
    LET res == IF ~s.user_has_data[user] THEN "UserNotRegistered"
               ELSE IF prediction_hash = ZERO_HASH THEN "InvalidPredictionHash"
               ELSE IF s.prediction_exists[user][date] THEN "PredictionAlreadyExists"
               ELSE "Ok"
    IN [res |-> res,
        state |-> IF res = "Ok"
                  THEN [s EXCEPT !.predictions[user][date] = prediction_hash,
                                 !.prediction_exists[user][date] = TRUE,
                                 !.total_predictions[user] = @ + 1,
                                 !.global_predictions = @ + 1]
                  ELSE s]

\* rate_prediction as a function of the storage s.
rate_prediction_result(s, user, date, rating) ==
    LET res == IF rating > MAX_RATING THEN "InvalidRating"
               ELSE IF ~s.prediction_exists[user][date] THEN "PredictionNotFound"
               ELSE "Ok"
        existing_rating == s.ratings[user][date]
    IN [res |-> res,
        state |-> IF res # "Ok" THEN s
                  ELSE IF existing_rating = 0
                  THEN [s EXCEPT !.ratings[user][date] = rating,
                                 !.total_ratings[user] = @ + 1,
                                 !.rating_sum[user] = @ + rating]
                  ELSE [s EXCEPT !.ratings[user][date] = rating,
                                 !.rating_sum[user] = @ - existing_rating + rating]]

\* The register_chart calls that name user as the owner.
RegisterChartCallsFor(user) ==
    [chart_id : ChartIds, chart_hash : Hashes, user : {user}, zk_verified : BOOLEAN]

\* The calls of FarcasterPredictions with user as msg::sender().
PredictionCallsBy(user) ==
    [op : {"register_user"}, user : {user}, commitment : Commitments]
        \cup [op : {"store_prediction"}, user : {user}, date : Dates,
              prediction_hash : PredictionHashes]
        \cup [op : {"rate_prediction"}, user : {user}, date : Dates,
              rating : RatingArgs]

\* The call applied to the storage s of ChartRegistry at the current clock value.
ApplyRegistry(s, call) ==
    register_chart_result(s, now, call.chart_id, call.chart_hash, call.user,
                          call.zk_verified)

\* The call applied to the storage s of FarcasterPredictions.
ApplyPrediction(s, call) ==
    IF call.op = "register_user"
    THEN register_user_result(s, call.user, call.commitment)
    ELSE IF call.op = "store_prediction"
    THEN store_prediction_result(s, call.user, call.date, call.prediction_hash)
    ELSE rate_prediction_result(s, call.user, call.date, call.rating)

\* ------------------------------------------------------------ poseidon.rs
\* A string is the sequence of its UTF-8 bytes; Repeat(b, n) is the byte b
\* repeated n times ("a".repeat(40) is Repeat(97, 40)).
Repeat(b, n) == [i \in 1..n |-> b]

\* The arguments the proof functions are called with.  97, 98, 99, 100 are
\* the bytes of "a", "b", "c", "d"; <<115, 104, 111, 114, 116>> is "short".
\* <<100, 0, 0, 0, 0, 0, 0, 0>> is the string "d" followed by seven NUL
\* characters, whose bytes are those of 100u64.to_le_bytes().
CommitmentArgs ==
    {<<>>, <<115, 104, 111, 114, 116>>,
     <<115, 104, 111, 114, 116>> \o <<100, 0, 0, 0, 0, 0, 0, 0>>,
     Repeat(97, 31), Repeat(97, 32),
     Repeat(97, 40), Repeat(97, 39) \o <<98>>}
NonceArgs ==
    {<<>>, Repeat(99, 15), <<100, 0, 0, 0, 0, 0, 0, 0>> \o Repeat(99, 15),
     Repeat(99, 16), Repeat(99, 20),
     Repeat(99, 19) \o <<100>>}
PositionArgs ==
    {<<>>, <<100, 200, 300>>, <<100, 100, 200, 300>>,
     <<100, 200, 300, 400, 500, 600>>,
     <<100, 200, 300, 400, 500, 600, 700>>,
     <<100, 200, 300, 400, 500, 600, 36000>>,
     <<100, 200, 300, 400, 500, 600, 36001>>,
     <<100, 200, 300, 400, 500, 600, 99999>>,
     <<100, 200, 300, 400, 500, 600, 700, 800>>}

\* string_to_bytes: the bytes of the string.
string_to_bytes(s) == s

RECURSIVE to_le_bytes(_, _)
\* The first n bytes of value, least significant first (u64: n = 8).
to_le_bytes(value, n) ==
    IF n = 0 THEN <<>>
    ELSE <<value % 256>> \o to_le_bytes(value \div 256, n - 1)

RECURSIVE u64_array_to_bytes(_)
\* u64_array_to_bytes: the 8 little-endian bytes of each value, in order.
u64_array_to_bytes(values) ==
    IF values = <<>> THEN <<>>
    ELSE to_le_bytes(Head(values), 8) \o u64_array_to_bytes(Tail(values))

\* One digit of hex::encode: '0'..'9' are 48..57, 'a'..'f' are 97..102.
HexDigit(nibble) == IF nibble < 10 THEN 48 + nibble ELSE 87 + nibble

\* hex::encode: two lowercase hex digits per byte, high nibble first.
hex_encode(bytes) ==
    [i \in 1..(2 * Len(bytes)) |->
        IF i % 2 = 1 THEN HexDigit(bytes[(i + 1) \div 2] \div 16)
        ELSE HexDigit(bytes[i \div 2] % 16)]

\* s comes before t: shorter first, then by the first byte that differs.
Before(s, t) ==
    \/ Len(s) < Len(t)
    \/ /\ Len(s) = Len(t)
       /\ s # t
       /\ LET i == CHOOSE k \in 1..Len(s) : s[k] # t[k] /\ \A j \in 1..(k - 1) : s[j] = t[j]
          IN s[i] < t[i]

\* The number of elements of S that come before x.
Rank(x, S) == Cardinality({t \in S : Before(t, x)})

\* A 32-byte digest that determines (round, index): the last two bytes are
\* the index, the first is the round, the others are filler.
Digest(round, index) ==
    [j \in 1..32 |->
        IF j = 1 THEN round
        ELSE IF j = 31 THEN (index \div 256) % 256
        ELSE IF j = 32 THEN index % 256
        ELSE (index * 7 + j * 171) % 256]

\* challenge_input of verify_zk_proof.
challenge_input(commitment, position_values) ==
    string_to_bytes(commitment) \o u64_array_to_bytes(position_values)

\* The byte strings verify_zk_proof hashes in step 1.
ChallengeInputs ==
    {challenge_input(c, p) : c \in CommitmentArgs \ {<<>>},
                             p \in PositionArgs \ {<<>>}}

\* The digests of the inputs of step 1.
ChallengeDigests ==
    [input \in ChallengeInputs |-> Digest(1, Rank(input, ChallengeInputs))]

\* keccak256 on the inputs of step 1.
keccak256_challenge(input) == ChallengeDigests[input]

\* proof_input of verify_zk_proof, from the hex string of the challenge.
proof_input(commitment, nonce, challenge_hex) ==
    string_to_bytes(commitment) \o string_to_bytes(nonce)
        \o string_to_bytes(challenge_hex)

\* The byte strings verify_zk_proof hashes in step 2.
ProofInputs ==
    {proof_input(c, n, hex_encode(keccak256_challenge(challenge_input(c, p)))) :
        c \in CommitmentArgs \ {<<>>}, n \in NonceArgs \ {<<>>},
        p \in PositionArgs \ {<<>>}}

\* The digests of the inputs of step 2.
ProofDigests ==
    [input \in ProofInputs |-> Digest(2, Rank(input, ProofInputs))]

\* keccak256: Keccak-256 is taken as collision-free; it is a function from
\* byte strings to 32-byte digests that is injective on the byte strings the
\* calls of the model hash.
keccak256(input) ==
    IF input \in ChallengeInputs THEN keccak256_challenge(input)
    ELSE ProofDigests[input]

\* verify_zk_proof that leaves the nonce out of proof_input.
verify_zk_proof_NoNonce(commitment, proof, nonce, position_values) ==
    IF commitment = <<>> \/ proof = <<>> \/ nonce = <<>> THEN FALSE
    ELSE IF position_values = <<>> THEN FALSE
    ELSE LET challenge_hash == keccak256(challenge_input(commitment, position_values))
             challenge_hex == hex_encode(challenge_hash)
             expected_proof_hash ==
                 keccak256(proof_input(commitment, Repeat(99, 20), challenge_hex))
             expected_proof == hex_encode(expected_proof_hash)
         IN expected_proof = proof

\* verify_zk_proof.
verify_zk_proof(commitment, proof, nonce, position_values) ==
    IF commitment = <<>> \/ proof = <<>> \/ nonce = <<>> THEN FALSE
    ELSE IF position_values = <<>> THEN FALSE
    ELSE LET challenge_hash == keccak256(challenge_input(commitment, position_values))
             challenge_hex == hex_encode(challenge_hash)
             expected_proof_hash ==
                 keccak256(proof_input(commitment, nonce, challenge_hex))
             expected_proof == hex_encode(expected_proof_hash)
         IN expected_proof = proof

\* verify_zk_proof_simple that accepts six positions.
verify_zk_proof_simple_SixPositions(commitment, proof, nonce, position_values) ==
    IF Len(commitment) < 32 THEN FALSE
    ELSE IF Len(proof) < 32 THEN FALSE
    ELSE IF Len(nonce) < 16 THEN FALSE
    ELSE IF Len(position_values) < 6 THEN FALSE
    ELSE IF \E i \in 1..Len(position_values) : position_values[i] > 36000
         THEN FALSE
    ELSE TRUE

\* verify_zk_proof_simple.
verify_zk_proof_simple(commitment, proof, nonce, position_values) ==
    IF Len(commitment) < 32 THEN FALSE
    ELSE IF Len(proof) < 32 THEN FALSE
    ELSE IF Len(nonce) < 16 THEN FALSE
    ELSE IF Len(position_values) < 7 THEN FALSE
    ELSE IF \E i \in 1..Len(position_values) : position_values[i] > 36000
         THEN FALSE
    ELSE TRUE

\* The hex string with its letters in upper case.
UpperCase(s) == [i \in 1..Len(s) |-> IF s[i] >= 97 THEN s[i] - 32 ELSE s[i]]

\* The proof strings of the calls: strings of the boundary lengths, the hex
\* digests step 2 gives for "a"*40 or "a"*39 + "b", "c"*20 or "c"*19 + "d",
\* and [100..700] or [100..600, 36000], the digest for "short", "d" with
\* seven NULs and "c"*15, and [100, 100, 200, 300], and one digest in upper
\* case.
ProofArgs ==
    {<<>>, Repeat(98, 31), Repeat(98, 32), Repeat(98, 40), Repeat(100, 40)}
        \cup {hex_encode(keccak256(proof_input(<<115, 104, 111, 114, 116>>,
                  <<100, 0, 0, 0, 0, 0, 0, 0>> \o Repeat(99, 15),
                  hex_encode(keccak256(challenge_input(<<115, 104, 111, 114, 116>>,
                      <<100, 100, 200, 300>>))))))}
        \cup {hex_encode(keccak256(proof_input(c, n,
                  hex_encode(keccak256(challenge_input(c, p)))))) :
                 c \in {Repeat(97, 40), Repeat(97, 39) \o <<98>>},
                 n \in {Repeat(99, 20), Repeat(99, 19) \o <<100>>},
                 p \in {<<100, 200, 300, 400, 500, 600, 700>>,
                        <<100, 200, 300, 400, 500, 600, 36000>>}}
        \cup {UpperCase(hex_encode(keccak256(
                  proof_input(Repeat(97, 40), Repeat(99, 20),
                      hex_encode(keccak256(challenge_input(Repeat(97, 40),
                          <<100, 200, 300, 400, 500, 600, 700>>)))))))}

\* The state before a call of a proof function: the arguments are chosen.
InitProof ==
    /\ charts = [c \in ChartIds |-> EmptyCommitment]
    /\ user_charts = [u \in Addresses |-> <<>>]
    /\ total_charts = 0
    /\ now = 0
    /\ events = <<>>
    /\ user_commitments = [u \in Senders |-> ZERO_HASH]
    /\ user_has_data = [u \in Senders |-> FALSE]
    /\ predictions = [u \in Senders |-> [d \in Dates |-> ZERO_HASH]]
    /\ prediction_exists = [u \in Senders |-> [d \in Dates |-> FALSE]]
    /\ ratings = [u \in Senders |-> [d \in Dates |-> 0]]
    /\ total_predictions = [u \in Senders |-> 0]
    /\ total_ratings = [u \in Senders |-> 0]
    /\ rating_sum = [u \in Senders |-> 0]
    /\ total_users = 0
    /\ global_predictions = 0
    /\ \E c \in CommitmentArgs, p \in ProofArgs, n \in NonceArgs,
          v \in PositionArgs :
           last = [op |-> "arguments", res |-> "Ok", commitment |-> c,
                   proof |-> p, nonce |-> n, position_values |-> v]
    /\ chartLog = {}
    /\ userLog = {}
    /\ predLog = {}
    /\ firstRating = [u \in Senders |-> [d \in Dates |-> "none"]]

\* A call of verify_zk_proof on the chosen arguments.
VerifyZkProof ==
    /\ last.op = "arguments"
    /\ last' = [last EXCEPT
                   !.op = "verify_zk_proof",
                   !.res = IF verify_zk_proof(last.commitment, last.proof,
                                              last.nonce, last.position_values)
                           THEN "true" ELSE "false"]
    /\ UNCHANGED <<registryVars, now, events, predictionVars, historyVars>>

\* A call of verify_zk_proof_simple on the chosen arguments.
VerifyZkProofSimple ==
    /\ last.op = "arguments"
    /\ last' = [last EXCEPT
                   !.op = "verify_zk_proof_simple",
                   !.res = IF verify_zk_proof_simple(last.commitment, last.proof,
                                                     last.nonce, last.position_values)
                           THEN "true" ELSE "false"]
    /\ UNCHANGED <<registryVars, now, events, predictionVars, historyVars>>

NextProof ==
    \/ VerifyZkProof
    \/ VerifyZkProofSimple

SpecProof == InitProof /\ [][NextProof]_vars

\* ================================================================ claims
\* Chart ids for which some register_chart call has returned Ok.
RegisteredIds == {p[1] : p \in chartLog}

\* Sum over the dates in D of the rating stored for (user, date).
SumOfRatings(user, D) == Sum(ratings[user], D)

\* C1 (as claimed): once register_chart has succeeded for a chart id, every
\* later register_chart on that id, whatever its arguments and whatever the
\* clock value of the first registration, returns ChartAlreadyExists and
\* leaves the records, the owner lists and total_charts unchanged.
C1_SecondRegistrationRejected ==
    [][last'.op = "register_chart" =>
          \A c \in RegisteredIds, h \in Hashes, u \in Addresses, v \in BOOLEAN :
              register_chart(c, h, u, v)
                  => (last'.res = "ChartAlreadyExists" /\ UNCHANGED registryVars)]_vars

\* C2: on a chart id never registered, register_chart with the zero hash
\* returns InvalidChartHash and register_chart with a nonzero hash and the
\* zero owner returns InvalidUserAddress; in both cases the id still has no
\* record, no owner list grows, total_charts keeps its value and no event is
\* emitted.
C2_ValidationGate ==
    [][last'.op = "register_chart" =>
          \A c \in ChartIds \ RegisteredIds, h \in Hashes, u \in Addresses,
             v \in BOOLEAN :
              register_chart(c, h, u, v)
                  => /\ (h = ZERO_HASH => last'.res = "InvalidChartHash")
                     /\ (h # ZERO_HASH /\ u = ZERO_ADDRESS
                            => last'.res = "InvalidUserAddress")
                     /\ (h = ZERO_HASH \/ u = ZERO_ADDRESS
                            => /\ charts'[c] = EmptyCommitment
                               /\ UNCHANGED <<registryVars, events>>)]_vars

\* C2 witness: a register_chart with the zero owner has just been rejected
\* while one id is registered and another is not.
C2_Witness ==
    /\ last = Call("register_chart", "InvalidUserAddress")
    /\ RegisteredIds # {}
    /\ RegisteredIds # ChartIds

\* C3 (as claimed): for every chart id that was registered with hash h,
\* verify_chart(id, h) is true and verify_chart(id, h2) is false for every
\* other hash h2.
C3_VerifyMatchesRegistration ==
    \A p \in chartLog :
        /\ verify_chart(p[1], p[2])
        /\ \A h2 \in Hashes \ {p[2]} : ~verify_chart(p[1], h2)

\* C4 (as claimed): mark_as_verified returns ChartDoesNotExist and changes
\* nothing on an id never registered; on an id that was registered it returns
\* Ok and leaves zk_verified true, on the first call and on every later one.
C4_MarkVerified ==
    [][last'.op = "mark_as_verified" =>
          \A c \in ChartIds :
              mark_as_verified(c)
                  => IF c \in RegisteredIds
                     THEN last'.res = "Ok" /\ charts'[c].zk_verified
                     ELSE /\ last'.res = "ChartDoesNotExist"
                          /\ UNCHANGED <<registryVars, events>>]_vars

\* C5: store_prediction returns UserNotRegistered while the sender has no
\* successful register_user, whatever the date and hash; once the sender is
\* registered, the first store_prediction with a nonzero hash on a date
\* returns Ok, after which has_prediction is true and get_prediction is the
\* hash passed.
C5_PredictionGating ==
    [][last'.op = "store_prediction" =>
          \A u \in Senders, d \in Dates, h \in PredictionHashes :
              store_prediction(u, d, h)
                  => /\ (u \notin userLog => last'.res = "UserNotRegistered")
                     /\ (u \in userLog /\ h # ZERO_HASH /\ <<u, d>> \notin predLog
                            => /\ last'.res = "Ok"
                               /\ has_prediction(u, d)'
                               /\ get_prediction(u, d)' = h)]_vars

\* C5 witness: a store_prediction has just succeeded for one sender while
\* the other sender is still unregistered.
C5_Witness ==
    /\ last = Call("store_prediction", "Ok")
    /\ \E u \in Senders, d \in Dates :
           has_prediction(u, d) /\ get_prediction(u, d) # ZERO_HASH
    /\ \E u \in Senders : u \notin userLog

\* C6 (as claimed): once a prediction exists for (sender, date), every
\* further store_prediction on that key returns PredictionAlreadyExists, for
\* every hash including the zero hash.
C6_SecondStoreAlreadyExists ==
    [][last'.op = "store_prediction" =>
          \A u \in Senders, d \in Dates, h \in PredictionHashes :
              (<<u, d>> \in predLog /\ store_prediction(u, d, h))
                  => last'.res = "PredictionAlreadyExists"]_vars

\* C6 (amended): once a prediction exists for (sender, date), every further
\* store_prediction on that key fails and changes nothing: with
\* PredictionAlreadyExists for every nonzero hash, and with
\* InvalidPredictionHash for the zero hash.
C6_SecondStoreFails ==
    [][last'.op = "store_prediction" =>
          \A u \in Senders, d \in Dates, h \in PredictionHashes :
              (<<u, d>> \in predLog /\ store_prediction(u, d, h))
                  => /\ last'.res = IF h = ZERO_HASH THEN "InvalidPredictionHash"
                                    ELSE "PredictionAlreadyExists"
                     /\ UNCHANGED predictionVars]_vars

\* C6 witness: a second store_prediction on an existing key has just been
\* rejected with PredictionAlreadyExists.
C6_Witness ==
    /\ last = Call("store_prediction", "PredictionAlreadyExists")
    /\ predLog # {}

\* C7: for every sender, rating_sum is the sum over all dates of the rating
\* now stored, so rating_sum minus any stored rating is never negative.
C7_RatingSumIsSumOfRatings ==
    \A u \in Senders :
        /\ rating_sum[u] = SumOfRatings(u, Dates)
        /\ \A d \in Dates : rating_sum[u] - ratings[u][d] >= 0

\* C7 witness: a key first rated with a nonzero value has been re-rated (the
\* update branch) down to 0 while the sender's other date holds a rating.
C7_Witness ==
    /\ last = Call("rate_prediction", "Ok")
    /\ \E u \in Senders, d \in Dates, d2 \in Dates :
           /\ d2 # d
           /\ firstRating[u][d] = "nonzero"
           /\ ratings[u][d] = 0
           /\ ratings[u][d2] # 0
           /\ rating_sum[u] = ratings[u][d2]

\* C8 (as claimed): for every sender, total_ratings is the number of
\* distinct dates on which a rate_prediction of that sender has succeeded.
C8_RatingCountIsRatedKeys ==
    \A u \in Senders :
        total_ratings[u] = Cardinality({d \in Dates : firstRating[u][d] # "none"})

\* C9 (as claimed): every successful rate_prediction stores its value as the
\* rating of the key; the first one on a key, when nonzero, raises the
\* sender's total_ratings by 1, and after a nonzero first rating no later
\* rating of that key changes total_ratings, whatever its value.
C9_RatingSequence ==
    [][last' = Call("rate_prediction", "Ok") =>
          \A u \in Senders, d \in Dates, r \in RatingArgs :
              rate_prediction(u, d, r)
                  => /\ get_rating(u, d)' = r
                     /\ (firstRating[u][d] = "none" /\ r # 0
                            => total_ratings'[u] = total_ratings[u] + 1)
                     /\ (firstRating[u][d] = "nonzero"
                            => total_ratings'[u] = total_ratings[u])]_vars

\* C10: rate_prediction returns InvalidRating for every rating above 5,
\* whether or not the prediction exists, and PredictionNotFound for a rating
\* of at most 5 on a key without a prediction; every stored rating is in
\* 0..5 and only keys with a prediction hold a nonzero rating.
C10_RatingValidation ==
    /\ [][last'.op = "rate_prediction" =>
             \A u \in Senders, d \in Dates, r \in RatingArgs :
                 rate_prediction(u, d, r)
                     => /\ (r > 5 => last'.res = "InvalidRating")
                        /\ (r <= 5 /\ <<u, d>> \notin predLog
                               => last'.res = "PredictionNotFound")]_vars
    /\ [](\A u \in Senders, d \in Dates :
             /\ ratings[u][d] \in 0..5
             /\ (ratings[u][d] # 0 => <<u, d>> \in predLog))

\* C10 witness: a rating above 5 has just been rejected on a key that has a
\* prediction, and a stored rating has the largest legal value.
C10_Witness ==
    /\ last = Call("rate_prediction", "InvalidRating")
    /\ predLog # {}
    /\ \E u \in Senders, d \in Dates : ratings[u][d] = 5

\* The results that are an Err of a state-changing entry point.
Failures ==
    {"ChartAlreadyExists", "InvalidChartHash", "InvalidUserAddress",
     "ChartDoesNotExist", "InvalidCommitment", "UserAlreadyRegistered",
     "UserNotRegistered", "InvalidPredictionHash", "PredictionAlreadyExists",
     "InvalidRating", "PredictionNotFound"}

\* C11: every call of register_chart, mark_as_verified, register_user,
\* store_prediction or rate_prediction that returns an error leaves the chart
\* records, the owner lists, the registration flags and commitments, the
\* predictions, the ratings, the per-user and global counters and the event
\* log as they were before the call.
C11_FailureChangesNothing ==
    [][last'.res \in Failures
          => UNCHANGED <<registryVars, events, predictionVars, historyVars>>]_vars

\* C11 witness: a register_user of an already registered sender has just been
\* rejected.
C11_Witness ==
    /\ last = Call("register_user", "UserAlreadyRegistered")
    /\ userLog # {}
    /\ total_users > 0

\* C12: register_user with the zero commitment returns InvalidCommitment;
\* with a nonzero commitment it returns Ok for a sender with no earlier
\* successful register_user and UserAlreadyRegistered for every later call of
\* that sender, so it succeeds at most once per sender.  No step changes the
\* commitment of a registered sender or clears its flag, and total_users is
\* the number of senders whose flag is set.
C12_RegisterOnce ==
    /\ [][last'.op = "register_user" =>
             \A u \in Senders, c \in Commitments :
                 register_user(u, c)
                     => last'.res = IF c = ZERO_HASH THEN "InvalidCommitment"
                                    ELSE IF u \in userLog
                                         THEN "UserAlreadyRegistered"
                                         ELSE "Ok"]_vars
    /\ [][\A u \in userLog :
             /\ user_commitments'[u] = user_commitments[u]
             /\ is_user_registered(u)']_vars
    /\ [](/\ total_users = Cardinality({u \in Senders : is_user_registered(u)})
          /\ \A u \in Senders :
                 /\ is_user_registered(u) <=> u \in userLog
                 /\ is_user_registered(u) <=> user_commitments[u] # ZERO_HASH)

\* C12 witness: both senders are registered and a further register_user with
\* a nonzero commitment has just been rejected.
C12_Witness ==
    /\ last = Call("register_user", "UserAlreadyRegistered")
    /\ total_users = 2
    /\ userLog = Senders

\* C13: get_user_stats returns the sender's total_predictions and
\* total_ratings, and an average_x10 that is 0 when total_ratings is 0 and
\* otherwise the largest integer a with a * total_ratings <= rating_sum * 10;
\* the call changes no state.
C13_UserStats ==
    /\ [](\A u \in Senders :
             LET stats == get_user_stats(u) IN
             /\ stats[1] = total_predictions[u]
             /\ stats[2] = total_ratings[u]
             /\ (total_ratings[u] = 0 => stats[3] = 0)
             /\ (total_ratings[u] > 0 =>
                    /\ stats[3] * total_ratings[u] <= rating_sum[u] * 10
                    /\ (stats[3] + 1) * total_ratings[u] > rating_sum[u] * 10))
    /\ [][last'.op = "get_user_stats" =>
             /\ UNCHANGED <<predictionVars, historyVars>>
             /\ last'.value = get_user_stats(last'.user)]_vars

\* C13 witness: get_user_stats has just returned a truncated average: three
\* counted ratings with sum 5 give 50 / 3 = 16.
C13_Witness ==
    /\ last.op = "get_user_stats"
    /\ last.value[2] = 3
    /\ rating_sum[last.user] = 5
    /\ last.value[3] = 16

\* C16: once a register_chart call has returned Ok for an id, no step changes
\* the chart_hash, user or timestamp of its record, zk_verified never goes
\* from true to false, and a mark_as_verified step changes nothing of the
\* registry but the zk_verified flag of its id.
C16_RecordFrozen ==
    /\ [][\A c \in RegisteredIds :
             /\ charts'[c].chart_hash = charts[c].chart_hash
             /\ charts'[c].user = charts[c].user
             /\ charts'[c].timestamp = charts[c].timestamp
             /\ (charts[c].zk_verified => charts'[c].zk_verified)]_vars
    /\ [][last'.op = "mark_as_verified" =>
             \A c \in ChartIds :
                 mark_as_verified(c) =>
                     /\ UNCHANGED <<user_charts, total_charts>>
                     /\ \A d \in ChartIds \ {c} : charts'[d] = charts[d]
                     /\ charts' = [charts EXCEPT ![c].zk_verified =
                                                    charts'[c].zk_verified]]_vars

\* The ids listed for user, as a set.
ListedIds(user) == {user_charts[user][i] : i \in 1..Len(user_charts[user])}

\* C17: every id in a user's list has a live record owned by that user, each
\* id is listed exactly once across all lists, a list only grows by appending,
\* and total_charts is the number of listed ids.
C17_ListsMatchRecords ==
    /\ [](/\ \A u \in Addresses : \A c \in ListedIds(u) :
                 /\ charts[c].timestamp # 0
                 /\ charts[c].user = u
          /\ \A u \in Addresses : \A i, j \in 1..Len(user_charts[u]) :
                 user_charts[u][i] = user_charts[u][j] => i = j
          /\ \A u, v \in Addresses : u # v => ListedIds(u) \cap ListedIds(v) = {}
          /\ total_charts = Sum([u \in Addresses |-> Len(user_charts[u])],
                                Addresses))
    /\ [][\A u \in Addresses :
             /\ Len(user_charts'[u]) >= Len(user_charts[u])
             /\ SubSeq(user_charts'[u], 1, Len(user_charts[u])) = user_charts[u]]_vars

\* C18: no step clears the existence flag of a stored prediction or changes
\* its hash, and a rate_prediction step changes at most the rating of its key
\* and the caller's total_ratings and rating_sum.
C18_PredictionFrozen ==
    /\ [][\A u \in Senders, d \in Dates :
             has_prediction(u, d) =>
                 /\ has_prediction(u, d)'
                 /\ get_prediction(u, d)' = get_prediction(u, d)]_vars
    /\ [][last'.op = "rate_prediction" =>
             \A u \in Senders, d \in Dates, r \in RatingArgs :
                 rate_prediction(u, d, r) =>
                     /\ UNCHANGED <<predictions, prediction_exists,
                                    total_predictions, total_users,
                                    global_predictions, user_commitments,
                                    user_has_data>>
                     /\ ratings' = [ratings EXCEPT ![u][d] = ratings'[u][d]]
                     /\ \A v \in Senders \ {u} :
                            /\ total_ratings'[v] = total_ratings[v]
                            /\ rating_sum'[v] = rating_sum[v]]_vars
    /\ [](\A u \in Senders, d \in Dates :
             has_prediction(u, d) <=> <<u, d>> \in predLog)

\* C18 witness: a rate_prediction call has just succeeded for a sender who
\* holds two stored predictions, one of them with a nonzero rating.
C18_Witness ==
    /\ last = Call("rate_prediction", "Ok")
    /\ \E u \in Senders :
           /\ \A d \in Dates : has_prediction(u, d)
           /\ \E d \in Dates : get_rating(u, d) # 0 /\ get_prediction(u, d) # ZERO_HASH
           /\ total_predictions[u] = 2

\* C19: no step decreases total_charts, total_users or the global prediction
\* count.
C19_CountersNeverDecrease ==
    [][/\ total_charts' >= total_charts
       /\ total_users' >= total_users
       /\ global_predictions' >= global_predictions]_vars

\* The proof the hash chain gives for (commitment, nonce, position_values).
ChainProof(commitment, nonce, position_values) ==
    hex_encode(keccak256(string_to_bytes(commitment) \o string_to_bytes(nonce)
        \o string_to_bytes(hex_encode(keccak256(
               string_to_bytes(commitment) \o u64_array_to_bytes(position_values))))))

\* The chain proofs of the nonempty arguments, computed once.
ChainProofs ==
    [a \in (CommitmentArgs \ {<<>>}) \X (NonceArgs \ {<<>>}) \X (PositionArgs \ {<<>>})
        |-> ChainProof(a[1], a[2], a[3])]

\* x and y have the same length and differ in exactly one element.
SingleChange(x, y) ==
    /\ Len(x) = Len(y)
    /\ Cardinality({i \in 1..Len(x) : x[i] # y[i]}) = 1

\* b is a with one byte of the commitment, one byte of the nonce or one
\* position value changed, lengths kept.
OneChanged(a, b) ==
    \/ SingleChange(a[1], b[1]) /\ a[2] = b[2] /\ a[3] = b[3]
    \/ a[1] = b[1] /\ SingleChange(a[2], b[2]) /\ a[3] = b[3]
    \/ a[1] = b[1] /\ a[2] = b[2] /\ SingleChange(a[3], b[3])

\* C14: verify_zk_proof returns false when commitment, proof, nonce or the
\* positions are empty; otherwise it returns true exactly when proof is the
\* chain proof of (commitment, nonce, positions).  On the chain proof of
\* arguments that differ from the call's in one byte of the commitment or
\* nonce, or in one position value, it returns false.
C14_VerifyIsHashChain ==
    last.op = "verify_zk_proof" =>
        LET c == last.commitment
            p == last.proof
            n == last.nonce
            v == last.position_values
        IN IF c = <<>> \/ p = <<>> \/ n = <<>> \/ v = <<>>
           THEN last.res = "false"
           ELSE /\ last.res = "true" <=> p = ChainProofs[<<c, n, v>>]
                /\ \A a \in DOMAIN ChainProofs :
                       (p = ChainProofs[a] /\ OneChanged(a, <<c, n, v>>))
                           => last.res = "false"

\* C14 witness: verify_zk_proof has just rejected the chain proof of "a"*40,
\* "c"*20, [100..700] for a nonce with one byte changed.
C14_Witness ==
    /\ last.op = "verify_zk_proof"
    /\ last.res = "false"
    /\ last.commitment = Repeat(97, 40)
    /\ last.nonce = Repeat(99, 19) \o <<100>>
    /\ last.position_values = <<100, 200, 300, 400, 500, 600, 700>>
    /\ last.proof = ChainProofs[<<Repeat(97, 40), Repeat(99, 20),
                                  <<100, 200, 300, 400, 500, 600, 700>>>>]

\* C15: verify_zk_proof_simple returns true exactly when the commitment has
\* at least 32 bytes, the proof at least 32, the nonce at least 16, there are
\* at least 7 positions and every position is at most 36000.
C15_SimpleChecksLengths ==
    last.op = "verify_zk_proof_simple" =>
        (last.res = "true" <=>
            /\ Len(last.commitment) >= 32
            /\ Len(last.proof) >= 32
            /\ Len(last.nonce) >= 16
            /\ Len(last.position_values) >= 7
            /\ \A i \in 1..Len(last.position_values) :
                   last.position_values[i] <= 36000)

\* C15 witness: verify_zk_proof_simple has just accepted a 32-byte
\* commitment, a 32-byte proof, a 16-byte nonce and seven positions, the last
\* of them 36000.
C15_Witness ==
    /\ last.op = "verify_zk_proof_simple"
    /\ last.res = "true"
    /\ last.commitment = Repeat(97, 32)
    /\ last.proof = Repeat(98, 32)
    /\ last.nonce = Repeat(99, 16)
    /\ last.position_values = <<100, 200, 300, 400, 500, 600, 36000>>

\* The event a successful register_chart call emits at clock value time.
ChartCreatedAt(time, call) ==
    [kind |-> "ChartCreated", chart_id |-> call.chart_id,
     chart_hash |-> call.chart_hash, user |-> call.user, timestamp |-> time,
     zk_verified |-> call.zk_verified]

\* register_chart call a at clock value ta, then call b at clock value tb,
\* from storage s: the two results, the storage left and the events emitted.
RegisterBoth(s, a, ta, b, tb) ==
    LET ra == register_chart_result(s, ta, a.chart_id, a.chart_hash, a.user,
                                    a.zk_verified)
        rb == register_chart_result(ra.state, tb, b.chart_id, b.chart_hash,
                                    b.user, b.zk_verified)
    IN [first |-> ra.res, second |-> rb.res, state |-> rb.state,
        events |-> (IF ra.res = "Ok" THEN <<ChartCreatedAt(ta, a)>> ELSE <<>>)
                       \o (IF rb.res = "Ok" THEN <<ChartCreatedAt(tb, b)>>
                           ELSE <<>>)]

\* The elements of the sequence seq.
Range(seq) == {seq[i] : i \in 1..Len(seq)}

\* From storage s, calls a and b give the same two results and leave the
\* same storage in either order.
Commute(Apply(_, _), s, a, b) ==
    LET ra == Apply(s, a)
        rab == Apply(ra.state, b)
        rb == Apply(s, b)
        rba == Apply(rb.state, a)
    IN /\ rba.res = ra.res
       /\ rab.res = rb.res
       /\ rab.state = rba.state

\* The result each function gives on the current storage is the result of
\* the validation of the call, a call that fails leaves the storage as it
\* is, and a step of a call that succeeds leaves the storage the function
\* gives.
CallsAreFunctions ==
    /\ [](/\ \A call \in UNION {RegisterChartCallsFor(u) : u \in Addresses} :
                 LET r == ApplyRegistry(RegistryState, call)
                 IN /\ r.res = register_chart_check(call.chart_id,
                                                    call.chart_hash, call.user)
                    /\ (r.res # "Ok" => r.state = RegistryState)
          /\ \A call \in UNION {PredictionCallsBy(u) : u \in Senders} :
                 LET r == ApplyPrediction(PredictionState, call)
                 IN /\ r.res =
                           IF call.op = "register_user"
                           THEN register_user_check(call.user, call.commitment)
                           ELSE IF call.op = "store_prediction"
                           THEN store_prediction_check(call.user, call.date,
                                                       call.prediction_hash)
                           ELSE rate_prediction_check(call.user, call.date,
                                                      call.rating)
                    /\ (r.res # "Ok" => r.state = PredictionState))
    /\ [][(last'.op = "register_chart" /\ last'.res = "Ok") =>
             \A call \in UNION {RegisterChartCallsFor(u) : u \in Addresses} :
                 register_chart(call.chart_id, call.chart_hash, call.user,
                                call.zk_verified)
                     => /\ RegistryState' = ApplyRegistry(RegistryState, call).state
                        /\ events' = Append(events, ChartCreatedAt(now, call))]_vars
    /\ [][(last'.op \in {"register_user", "store_prediction", "rate_prediction"}
              /\ last'.res = "Ok") =>
             \A call \in UNION {PredictionCallsBy(u) : u \in Senders} :
                 (/\ call.op = last'.op
                  /\ IF call.op = "register_user"
                     THEN register_user(call.user, call.commitment)
                     ELSE IF call.op = "store_prediction"
                     THEN store_prediction(call.user, call.date,
                                           call.prediction_hash)
                     ELSE rate_prediction(call.user, call.date, call.rating))
                     => PredictionState' =
                            ApplyPrediction(PredictionState, call).state]_vars

\* From the current storage, two FarcasterPredictions calls from different
\* senders give the same results and the same storage in either order.
PredictionCallsCommute ==
    \A u, v \in Senders :
        u < v =>
            \A a \in PredictionCallsBy(u), b \in PredictionCallsBy(v) :
                Commute(ApplyPrediction, PredictionState, a, b)

\* C20 as stated: from every reachable state, two register_chart calls with
\* different owners, the first executed at the current clock value and the
\* second at the same or a later one, give the same two results, the same
\* storage and the same event log in either order, and two
\* FarcasterPredictions calls from different senders give the same results
\* and the same storage in either order.
C20_DistinctOwnersCommute ==
    /\ \A u, v \in Addresses :
           u < v =>
               \A a \in RegisterChartCallsFor(u), b \in RegisterChartCallsFor(v),
                  t \in Times :
                   t >= now =>
                       LET ab == RegisterBoth(RegistryState, a, now, b, t)
                           ba == RegisterBoth(RegistryState, b, now, a, t)
                       IN /\ ab.first = ba.second
                          /\ ab.second = ba.first
                          /\ ab.state = ba.state
                          /\ ab.events = ba.events
    /\ PredictionCallsCommute

\* C20 amended: two register_chart calls with different owners and different
\* chart ids, both executed at the current clock value, give the same two
\* results, the same storage and the same events in either order, the events
\* in the order of execution; two FarcasterPredictions calls from different
\* senders give the same results and the same storage in either order.  A
\* behaviour is a behaviour of one contract, and the storage of the other
\* contract is then the initial one, so each contract is examined in its
\* own behaviours and in the initial state.
C20_DistinctOwnersAndIdsCommute ==
    /\ CallsAreFunctions
    /\ [](/\ last.op \notin PredictionCalls =>
                 \A u, v \in Addresses :
                     u < v =>
                         \A a \in RegisterChartCallsFor(u),
                            b \in RegisterChartCallsFor(v) :
                             a.chart_id # b.chart_id =>
                                 LET ab == RegisterBoth(RegistryState, a, now, b, now)
                                     ba == RegisterBoth(RegistryState, b, now, a, now)
                                 IN /\ ab.first = ba.second
                                    /\ ab.second = ba.first
                                    /\ ab.state = ba.state
                                    /\ Range(ab.events) = Range(ba.events)
                                    /\ Len(ab.events) = Len(ba.events)
          /\ last.op \notin RegistryCalls => PredictionCallsCommute)

\* C20 witness: after a successful register_chart there are two further
\* register_chart calls with different owners and different ids that both
\* succeed in either order; at one clock value they leave the same storage
\* and the same two events in the other order, and with the second call at
\* a later clock value they leave different storage.
C20_Witness ==
    /\ last = Call("register_chart", "Ok")
    /\ \E a \in RegisterChartCallsFor(1), b \in RegisterChartCallsFor(2) :
           LET ab == RegisterBoth(RegistryState, a, now, b, now)
               ba == RegisterBoth(RegistryState, b, now, a, now)
           IN /\ a.chart_id # b.chart_id
              /\ ab.first = "Ok" /\ ab.second = "Ok"
              /\ ab.state = ba.state
              /\ ab.events # ba.events
              /\ Range(ab.events) = Range(ba.events)
              /\ \E t \in Times :
                     /\ t > now
                     /\ RegisterBoth(RegistryState, a, now, b, t).state
                            # RegisterBoth(RegistryState, b, now, a, t).state

\* C21: a proof that verify_zk_proof accepts for (commitment, nonce,
\* positions) is accepted for no other triple of nonempty arguments.
C21_ProofBindsInputs ==
    (last.op = "verify_zk_proof" /\ last.res = "true") =>
        \A c \in CommitmentArgs \ {<<>>}, n \in NonceArgs \ {<<>>},
           v \in PositionArgs \ {<<>>} :
            verify_zk_proof(c, last.proof, n, v)
                => /\ c = last.commitment
                   /\ n = last.nonce
                   /\ v = last.position_values

====
